---- MODULE Spec2Model ----
(***************************************************************************)
(* The vector storage of PRISMAgent:                                       *)
(*   InMemoryVectorBackend  (storage/vector_backend.py)  -- Spec           *)
(*   InMemoryStore          (storage/memory_backend.py)  -- SpecStore      *)
(*   concurrent upserts on the two stores                -- SpecTasks      *)
(*   the remote adapters (Pinecone, Redis, RedisVL)      -- SpecRemote     *)
(*   the VectorStore facade (storage/vector_backend.py)  -- SpecFacade     *)
(*   registry_factory       (storage/__init__.py)        -- SpecRegistry   *)
(*   _matches_filter        (storage/vector_backend.py)  -- SpecFilter     *)
(*   calls in flight on the in-memory stores             -- SpecCalls      *)
(*   InMemoryRegistry       (storage/file_backend.py)    -- SpecInMemoryRegistry *)
(*                                                                         *)
(* A Python dict is modelled as a sequence of [key, val] entries with      *)
(* distinct keys, in insertion order (dicts iterate in insertion order and *)
(* list.sort is stable, so the order decides ties in query results).       *)
(*                                                                         *)
(* Vectors have integer coordinates.  A similarity score is kept as the    *)
(* exact value of the cosine: [sgn, num, den] stands for                   *)
(* sgn * sqrt(num / den), num/den in lowest terms.  Vectors are drawn with *)
(* integer norms, for which the float computation of the source is exact   *)
(* up to its last, correctly rounded division, so that equal and ordered   *)
(* scores of the model are equal and ordered floats of the program.        *)
(***************************************************************************)
EXTENDS Integers, Sequences, FiniteSets, TLC

VARIABLES
    vectors,      \* InMemoryVectorBackend.vectors : dict id -> {id, vector, metadata}
    ms_vectors,   \* InMemoryStore.vectors  : dict uid -> float32 array
    ms_metadata,  \* InMemoryStore.metadata : dict uid -> meta
    ret,          \* the last call: its name, its arguments and what it returned
    written,      \* history: id -> the arguments of the last successful upsert of
                  \* the id, for the ids upserted since the last clear and not
                  \* deleted since
    tasks,        \* the asyncio tasks created for upserts, in creation order
    loop,         \* the event loop of a caller of a remote adapter: the call in
                  \* flight and the steps other tasks took since it was issued
    store,        \* the VectorStore facade: None before it is constructed
    REGISTRY,     \* storage/__init__.py: the module global _REGISTRY
    registry      \* file_backend.py: InMemoryRegistry._store and the instances

\* the state of the components other than the two in-memory stores
outside == <<tasks, loop, store, REGISTRY, registry>>

vars == <<vectors, ms_vectors, ms_metadata, ret, written, outside>>

(***************************************************************************)
(* Bounds of the model.                                                    *)
(***************************************************************************)
NumIds == 2
MaxK == 2
NumTasks == 3
MaxSize == 3
MaxTicks == 2
MaxInstances == 2

Ids == 1..NumIds
Ks == (-1)..MaxK

(***************************************************************************)
(* Python values.                                                          *)
(***************************************************************************)
None == <<"None">>
Some(x) == <<"some", x>>
IsNone(o) == o[1] = "None"
Unwrap(o) == o[2]

Num(n) == <<"num", n>>
Str(s) == <<"str", s>>

EmptyDict == << >>
Entry(k, v) == [key |-> k, val |-> v]

DictKeys(d) == {d[i].key : i \in DOMAIN d}
DictHas(d, k) == \E i \in DOMAIN d : d[i].key = k
DictIndex(d, k) == CHOOSE i \in DOMAIN d : d[i].key = k
DictGet(d, k) == d[DictIndex(d, k)].val

\* d[k] = v where the key is moved to the end of the iteration order
DictSetMoveToEnd(d, k, v) ==
    Append(SelectSeq(d, LAMBDA e : e.key # k), Entry(k, v))

\* d[k] = v without looking for an existing key
DictSetAppend(d, k, v) == Append(d, Entry(k, v))

\* d[k] = v that forgets every other key
DictSetOnly(d, k, v) == <<Entry(k, v)>>

\* d.setdefault(k, v): an existing key keeps its value
DictSetKeepFirst(d, k, v) == IF DictHas(d, k) THEN d ELSE Append(d, Entry(k, v))

\* d[k] = v : an existing key keeps its place in the iteration order
DictSet(d, k, v) ==
    IF DictHas(d, k)
    THEN [d EXCEPT ![DictIndex(d, k)] = Entry(k, v)]
    ELSE Append(d, Entry(k, v))

\* del d[k] that removes nothing
DictDelNoop(d, k) == d

\* del d[k]
DictDel(d, k) == SelectSeq(d, LAMBDA e : e.key # k)

\* the history after a successful upsert, and after a delete
Wrote(w, id, vector, metadata) ==
    [i \in DOMAIN w \cup {id} |->
        IF i = id THEN [vector |-> vector, metadata |-> metadata] ELSE w[i]]
Forgot(w, id) == [i \in DOMAIN w \ {id} |-> w[i]]

\* the truth value of an optional dict argument: None and {} are falsy
Truthy(o) == ~IsNone(o) /\ Len(Unwrap(o)) > 0

\* the metadata dropped: always {}
OrEmptyAlways(o) == EmptyDict

\* `metadata or {}`
OrEmpty(o) == IF Truthy(o) THEN Unwrap(o) ELSE EmptyDict

(***************************************************************************)
(* Inputs.                                                                 *)
(***************************************************************************)
MetaA == <<Entry("category", Str("A"))>>
MetaB == <<Entry("category", Str("B"))>>

\* what upsert is called with: <<vector, metadata>>
Payloads ==
    { << <<1, 0>>, Some(MetaA) >>,
      << <<2, 0>>, Some(MetaB) >>,
      << <<3, 4>>, Some(MetaA) >>,
      << <<0, 0>>, None >>,
      << <<1>>,    Some(MetaA) >>,
      << << >>,    Some(EmptyDict) >> }

\* what query is called with
QueryVectors == { <<1, 0>>, <<-1, 0>>, <<0, 0>> }

FilterA == <<Entry("category", Str("A"))>>
FilterArgs == { None, Some(FilterA) }

(***************************************************************************)
(* InMemoryVectorBackend._cosine_similarity                                *)
(***************************************************************************)
RECURSIVE Gcd(_, _)
Gcd(a, b) == IF b = 0 THEN a ELSE Gcd(b, a % b)

RECURSIVE DotFrom(_, _, _)
DotFrom(v1, v2, i) ==
    IF i > Len(v1) \/ i > Len(v2) THEN 0
    ELSE v1[i] * v2[i] + DotFrom(v1, v2, i + 1)

\* sum(a * b for a, b in zip(v1, v2))
Dot(v1, v2) == DotFrom(v1, v2, 1)

\* sum(a * a for a in v), the square of the magnitude
NormSq(v) == Dot(v, v)

Sign(x) == IF x > 0 THEN 1 ELSE IF x < 0 THEN -1 ELSE 0

ScoreZero == [sgn |-> 0, num |-> 0, den |-> 1]
ScoreOne == [sgn |-> 1, num |-> 1, den |-> 1]

\* dot / (mag1 * mag2) for non-zero magnitudes, as sgn * sqrt(num / den)
Ratio(dot, n1, n2) ==
    IF dot = 0 THEN ScoreZero
    ELSE LET g == Gcd(dot * dot, n1 * n2)
         IN  [sgn |-> Sign(dot), num |-> (dot * dot) \div g, den |-> (n1 * n2) \div g]

\* raise ValueError("Vector dimensions don't match")
CosineRaises(v1, v2) == Len(v1) # Len(v2)

\* the value returned when the dimensions match
CosineSimilarity(v1, v2) ==
    IF NormSq(v1) = 0 \/ NormSq(v2) = 0 THEN ScoreZero
    ELSE Ratio(Dot(v1, v2), NormSq(v1), NormSq(v2))

\* a.score <= b.score, a.score = b.score on exact scores
ScoreLeq(a, b) == a.sgn * a.num * b.den <= b.sgn * b.num * a.den
ScoreLess(a, b) == ~ScoreLeq(b, a)

(***************************************************************************)
(* InMemoryVectorBackend._matches_filter                                   *)
(* The outcome is [match, raised, warnings]: the value returned, whether a *)
(* comparison raised TypeError instead, and the "Unsupported operator"     *)
(* warnings logged on the way.                                             *)
(***************************************************************************)
StrRank(s) == CASE s = "A" -> 1 [] s = "B" -> 2 [] OTHER -> 3

IsOps(v) == v[1] = "ops"
Ops(d) == <<"ops", d>>

\* Python's a < b and a <= b raise TypeError between a str and a number
Comparable(a, b) == a[1] = b[1]
Rank(a) == IF a[1] = "num" THEN a[2] ELSE StrRank(a[2])
PyLess(a, b) == Rank(a) < Rank(b)
PyLeq(a, b) == Rank(a) <= Rank(b)

Outcome(m, r, w) == [match |-> m, raised |-> r, warnings |-> w]

\* $ne asks for the field to be present
OpStepNePresent(metadata, key, op, opv) ==
    LET has == DictHas(metadata, key)
        mv == DictGet(metadata, key)
    IN  CASE op \in {"$gt", "$gte", "$lt", "$lte"} ->
               IF ~has THEN "fail"
               ELSE IF ~Comparable(mv, opv) THEN "raise"
               ELSE IF op = "$gt" /\ PyLeq(mv, opv) THEN "fail"
               ELSE IF op = "$gte" /\ PyLess(mv, opv) THEN "fail"
               ELSE IF op = "$lt" /\ PyLeq(opv, mv) THEN "fail"
               ELSE IF op = "$lte" /\ PyLess(opv, mv) THEN "fail" ELSE "ok"
          [] op = "$ne" ->
               IF ~has \/ mv = opv THEN "fail" ELSE "ok"
          [] OTHER -> "unsupported"

\* $gte taken for $gt: a value equal to the bound fails
OpStepGteStrict(metadata, key, op, opv) ==
    LET has == DictHas(metadata, key)
        mv == DictGet(metadata, key)
    IN  CASE op \in {"$gt", "$gte", "$lt", "$lte"} ->
               IF ~has THEN "fail"
               ELSE IF ~Comparable(mv, opv) THEN "raise"
               ELSE IF op \in {"$gt", "$gte"} /\ PyLeq(mv, opv) THEN "fail"
               ELSE IF op = "$lt" /\ PyLeq(opv, mv) THEN "fail"
               ELSE IF op = "$lte" /\ PyLess(opv, mv) THEN "fail" ELSE "ok"
          [] op = "$ne" ->
               IF has /\ mv = opv THEN "fail" ELSE "ok"
          [] OTHER -> "unsupported"

\* one operator of an operator object: "ok", "fail", "raise" or "unsupported"
OpStep(metadata, key, op, opv) ==
    LET has == DictHas(metadata, key)
        mv == DictGet(metadata, key)
    IN  CASE op = "$gt" ->
               IF ~has THEN "fail"
               ELSE IF ~Comparable(mv, opv) THEN "raise"
               ELSE IF PyLeq(mv, opv) THEN "fail" ELSE "ok"
          [] op = "$gte" ->
               IF ~has THEN "fail"
               ELSE IF ~Comparable(mv, opv) THEN "raise"
               ELSE IF PyLess(mv, opv) THEN "fail" ELSE "ok"
          [] op = "$lt" ->
               IF ~has THEN "fail"
               ELSE IF ~Comparable(mv, opv) THEN "raise"
               ELSE IF PyLeq(opv, mv) THEN "fail" ELSE "ok"
          [] op = "$lte" ->
               IF ~has THEN "fail"
               ELSE IF ~Comparable(mv, opv) THEN "raise"
               ELSE IF PyLess(opv, mv) THEN "fail" ELSE "ok"
          [] op = "$ne" ->
               IF has /\ mv = opv THEN "fail" ELSE "ok"
          [] OTHER -> "unsupported"

\* for op, op_value in value.items(), from the j-th operator on
RECURSIVE OpsFrom(_, _, _, _)
OpsFrom(metadata, key, ops, j) ==
    IF j > Len(ops) THEN "ok"
    ELSE LET s == OpStep(metadata, key, ops[j].key, ops[j].val)
         IN  IF s = "ok" THEN OpsFrom(metadata, key, ops, j + 1) ELSE s

\* for key, value in filter_expr.items(), from the i-th field on
RECURSIVE FieldsFrom(_, _, _)
FieldsFrom(metadata, expr, i) ==
    IF i > Len(expr) THEN Outcome(TRUE, FALSE, 0)
    ELSE LET key == expr[i].key
             value == expr[i].val
         IN  IF IsOps(value)
             THEN LET s == OpsFrom(metadata, key, value[2], 1)
                  IN  CASE s = "ok" -> FieldsFrom(metadata, expr, i + 1)
                        [] s = "fail" -> Outcome(FALSE, FALSE, 0)
                        [] s = "raise" -> Outcome(FALSE, TRUE, 0)
                        [] OTHER -> Outcome(FALSE, FALSE, 1)
             ELSE IF ~DictHas(metadata, key) \/ DictGet(metadata, key) # value
                  THEN Outcome(FALSE, FALSE, 0)
                  ELSE FieldsFrom(metadata, expr, i + 1)

\* only the first field of the expression is looked at
MatchesFilterFirstField(metadata, expr) ==
    FieldsFrom(metadata, IF Len(expr) > 1 THEN SubSeq(expr, 1, 1) ELSE expr, 1)

MatchesFilter(metadata, expr) == FieldsFrom(metadata, expr, 1)

(***************************************************************************)
(* list.sort(key=score, reverse=True) and results[:k]                      *)
(***************************************************************************)
\* e is put before the elements of its own score: an unstable sort
InsertDescBeforeTies(sorted, e) ==
    LET n == Cardinality({i \in DOMAIN sorted : ScoreLess(e.score, sorted[i].score)})
    IN  SubSeq(sorted, 1, n) \o <<e>> \o SubSeq(sorted, n + 1, Len(sorted))

\* e is put behind every element whose score is not lower: equal scores
\* keep the order in which they were appended (a stable sort)
InsertDesc(sorted, e) ==
    LET n == Cardinality({i \in DOMAIN sorted : ScoreLeq(e.score, sorted[i].score)})
    IN  SubSeq(sorted, 1, n) \o <<e>> \o SubSeq(sorted, n + 1, Len(sorted))

RECURSIVE SortFrom(_, _, _)
SortFrom(results, i, acc) ==
    IF i > Len(results) THEN acc
    ELSE SortFrom(results, i + 1, InsertDesc(acc, results[i]))

\* the sort left out
SortNone(results) == results

\* results.sort(key=lambda x: x["score"], reverse=True)
SortDesc(results) == SortFrom(results, 1, << >>)

Min(a, b) == IF a <= b THEN a ELSE b
Max(a, b) == IF a >= b THEN a ELSE b

\* the last elements are kept instead of the first
SliceTail(s, k) ==
    IF k >= 0 THEN SubSeq(s, Len(s) - Min(k, Len(s)) + 1, Len(s))
    ELSE SubSeq(s, Len(s) - Max(Len(s) + k, 0) + 1, Len(s))

\* s[:k]: a negative k counts from the end
Slice(s, k) ==
    IF k >= 0 THEN SubSeq(s, 1, Min(k, Len(s)))
    ELSE SubSeq(s, 1, Max(Len(s) + k, 0))

(***************************************************************************)
(* InMemoryVectorBackend                                                   *)
(***************************************************************************)
Record(id, vector, metadata) ==
    [id |-> id, vector |-> vector, metadata |-> metadata]

Match(id, score, metadata) ==
    [id |-> id, score |-> score, metadata |-> metadata]

\* `filter_expr and not self._matches_filter(...)`: the record is skipped
Skipped(data, f) ==
    Truthy(f) /\ ~MatchesFilter(data.metadata, Unwrap(f)).match

\* the filter raised on this record
FilterRaises(data, f) ==
    Truthy(f) /\ MatchesFilter(data.metadata, Unwrap(f)).raised

\* an exception leaves the loop of query: it is caught and the matches are []
QueryRaises(d, q, f) ==
    \E i \in DOMAIN d :
        \/ FilterRaises(d[i].val, f)
        \/ ~Skipped(d[i].val, f) /\ CosineRaises(q, d[i].val.vector)

\* the results list at the end of the loop, in dict order
RECURSIVE ResultsFrom(_, _, _, _)
ResultsFrom(d, q, f, i) ==
    IF i > Len(d) THEN << >>
    ELSE IF Skipped(d[i].val, f) THEN ResultsFrom(d, q, f, i + 1)
    ELSE <<Match(d[i].key, CosineSimilarity(q, d[i].val.vector), d[i].val.metadata)>>
             \o ResultsFrom(d, q, f, i + 1)

\* query(vector, k, filter_expr)["matches"]
QueryMatches(d, q, k, f) ==
    IF QueryRaises(d, q, f) THEN << >>
    ELSE Slice(SortDesc(ResultsFrom(d, q, f, 1)), k)

\* async def upsert(self, id, vector, metadata=None)
Upsert(id, vector, metadata) ==
    /\ vectors' = DictSet(vectors, id, Record(id, vector, OrEmpty(metadata)))
    /\ ret' = [op |-> "upsert", id |-> id, vector |-> vector,
               metadata |-> metadata, result |-> TRUE,
               same |-> DictHas(vectors, id)
                        /\ DictGet(vectors, id) = Record(id, vector, OrEmpty(metadata))]
    /\ written' = Wrote(written, id, vector, metadata)
    /\ UNCHANGED <<ms_vectors, ms_metadata, outside>>

\* async def query(self, vector, k=10, filter_expr=None)
Query(q, k, f) ==
    /\ ret' = [op |-> "query", vector |-> q, k |-> k, filter |-> f,
               result |-> QueryMatches(vectors, q, k, f)]
    /\ UNCHANGED <<vectors, ms_vectors, ms_metadata, written, outside>>

\* async def get(self, id): self.vectors.get(id)
Get(id) ==
    /\ ret' = [op |-> "get", id |-> id,
               result |-> IF DictHas(vectors, id)
                          THEN Some(DictGet(vectors, id)) ELSE None]
    /\ UNCHANGED <<vectors, ms_vectors, ms_metadata, written, outside>>

\* async def delete(self, id)
Delete(id) ==
    /\ vectors' = IF DictHas(vectors, id) THEN DictDel(vectors, id) ELSE vectors
    /\ ret' = [op |-> "delete", id |-> id, result |-> DictHas(vectors, id)]
    /\ written' = Forgot(written, id)
    /\ UNCHANGED <<ms_vectors, ms_metadata, outside>>

\* file_backend.py before any InMemoryRegistry is constructed: the class
\* attribute _store is {} and there is no instance
NoRegistry == [store |-> EmptyDict, instances |-> << >>]

\* InMemoryVectorBackend.__init__ (and InMemoryStore.__init__); no task, no
\* remote call, no facade and no registry exist yet
Init ==
    /\ vectors = EmptyDict
    /\ ms_vectors = EmptyDict
    /\ ms_metadata = EmptyDict
    /\ ret = [op |-> "init"]
    /\ written = << >>
    /\ tasks = << >>
    /\ loop = [call |-> None, ticks |-> 0]
    /\ store = None
    /\ REGISTRY = None
    /\ registry = NoRegistry

Next ==
    \/ \E id \in Ids, p \in Payloads : Upsert(id, p[1], p[2])
    \/ \E q \in QueryVectors, k \in Ks, f \in FilterArgs : Query(q, k, f)
    \/ \E id \in Ids : Get(id)
    \/ \E id \in Ids : Delete(id)

Spec == Init /\ [][Next]_vars

(***************************************************************************)
(* InMemoryStore                                                           *)
(***************************************************************************)
\* a list argument: List(v) is a list of numbers, NotNumeric a list that
\* np.array(..., dtype=np.float32) refuses (ValueError)
List(v) == <<"list", v>>
NotNumeric == <<"notnumeric">>
IsNumeric(a) == a[1] = "list"

\* what InMemoryStore.upsert is called with: <<vec, meta>>
StorePayloads ==
    { << List(<<1, 0>>), Some(MetaA) >>,
      << List(<<2, 0>>), Some(MetaB) >>,
      << List(<<0, 0>>), None >>,
      << List(<<1>>),    Some(MetaB) >>,
      << NotNumeric,     Some(MetaA) >> }

\* what InMemoryStore.query is called with
StoreQueryVectors == { List(<<1, 0>>), List(<<0, 0>>), NotNumeric }

\* the float32 nearest to an integer: exact up to 2^24, then the even neighbour
Float32Exact == 16777216
F32(x) ==
    IF -Float32Exact <= x /\ x <= Float32Exact THEN x
    ELSE IF x % 2 = 0 THEN x
    ELSE IF ((x - 1) \div 2) % 2 = 0 THEN x - 1 ELSE x + 1

\* np.array(vec, dtype=np.float32)
NpArray(a) == [i \in DOMAIN a[2] |-> F32(a[2][i])]

\* np.dot of two 1-d arrays raises ValueError when their shapes differ; it is
\* reached only when both norms are non-zero
StoreDotRaises(q, v) ==
    NormSq(q) # 0 /\ NormSq(v) # 0 /\ Len(q) # Len(v)

StoreSimilarity(q, v) ==
    IF NormSq(q) = 0 \/ NormSq(v) = 0 THEN ScoreZero
    ELSE Ratio(Dot(q, v), NormSq(q), NormSq(v))

\* self.metadata.get(uid, {})
StoreMetaOf(md, uid) == IF DictHas(md, uid) THEN DictGet(md, uid) ELSE Some(EmptyDict)

RECURSIVE StoreResultsFrom(_, _, _, _)
StoreResultsFrom(vs, md, q, i) ==
    IF i > Len(vs) THEN << >>
    ELSE <<Match(vs[i].key, StoreSimilarity(q, vs[i].val), StoreMetaOf(md, vs[i].key))>>
             \o StoreResultsFrom(vs, md, q, i + 1)

\* InMemoryStore.query(vec, k, filter_expr)["matches"]: the filter is ignored
StoreQueryMatches(vs, md, a, k) ==
    IF Len(vs) = 0 THEN << >>
    ELSE IF ~IsNumeric(a) THEN << >>
    ELSE IF \E i \in DOMAIN vs : StoreDotRaises(NpArray(a), vs[i].val) THEN << >>
    ELSE Slice(SortDesc(StoreResultsFrom(vs, md, NpArray(a), 1)), k)

\* the metadata is not stored
StoreUpsertVectorOnly(uid, a, meta) ==
    /\ IF IsNumeric(a)
       THEN /\ ms_vectors' = DictSet(ms_vectors, uid, NpArray(a))
            /\ written' = Wrote(written, uid, a, meta)
            /\ UNCHANGED ms_metadata
       ELSE UNCHANGED <<ms_vectors, ms_metadata, written>>
    /\ ret' = [op |-> "upsert", id |-> uid, vector |-> a, metadata |-> meta,
               result |-> IsNumeric(a)]
    /\ UNCHANGED <<vectors, outside>>

\* async def upsert(self, uid, vec, meta)
StoreUpsert(uid, a, meta) ==
    /\ IF IsNumeric(a)
       THEN /\ ms_vectors' = DictSet(ms_vectors, uid, NpArray(a))
            /\ ms_metadata' = DictSet(ms_metadata, uid, meta)
            /\ written' = Wrote(written, uid, a, meta)
       ELSE UNCHANGED <<ms_vectors, ms_metadata, written>>
    /\ ret' = [op |-> "upsert", id |-> uid, vector |-> a, metadata |-> meta,
               result |-> IsNumeric(a)]
    /\ UNCHANGED <<vectors, outside>>

\* async def query(self, vec, k=5, filter_expr=None)
StoreQuery(a, k, f) ==
    /\ ret' = [op |-> "query", vector |-> a, k |-> k, filter |-> f,
               result |-> StoreQueryMatches(ms_vectors, ms_metadata, a, k)]
    /\ UNCHANGED <<vectors, ms_vectors, ms_metadata, written, outside>>

\* async def delete(self, uid): `del self.metadata[uid]` raises KeyError when the
\* metadata map lacks the uid, after the vector is gone
StoreDelete(uid) ==
    /\ IF DictHas(ms_vectors, uid)
       THEN /\ ms_vectors' = DictDel(ms_vectors, uid)
            /\ ms_metadata' = DictDel(ms_metadata, uid)
            /\ ret' = [op |-> "delete", id |-> uid,
                       result |-> IF DictHas(ms_metadata, uid) THEN Some(TRUE) ELSE <<"KeyError">>]
       ELSE /\ UNCHANGED <<ms_vectors, ms_metadata>>
            /\ ret' = [op |-> "delete", id |-> uid, result |-> Some(FALSE)]
    /\ written' = Forgot(written, uid)
    /\ UNCHANGED <<vectors, outside>>

\* async def clear(self)
StoreClear ==
    /\ ms_vectors' = EmptyDict
    /\ ms_metadata' = EmptyDict
    /\ ret' = [op |-> "clear"]
    /\ written' = << >>
    /\ UNCHANGED <<vectors, outside>>

\* async def count(self)
StoreCount ==
    /\ ret' = [op |-> "count", result |-> Len(ms_vectors)]
    /\ UNCHANGED <<vectors, ms_vectors, ms_metadata, written, outside>>

NextStore ==
    \/ \E uid \in Ids, p \in StorePayloads : StoreUpsert(uid, p[1], p[2])
    \/ \E a \in StoreQueryVectors, k \in Ks, f \in FilterArgs : StoreQuery(a, k, f)
    \/ \E uid \in Ids : StoreDelete(uid)
    \/ StoreClear
    \/ StoreCount

SpecStore == Init /\ [][NextStore]_vars

(***************************************************************************)
(* Concurrent upserts.  The callers are asyncio tasks of one event loop: a *)
(* task runs without interruption up to its next suspension, and neither   *)
(* VectorStore.upsert (it awaits the backend's coroutine, which does not   *)
(* suspend) nor InMemoryStore.upsert contains one, so that the upsert of a *)
(* task is one step.  The event loop may run the pending tasks in any      *)
(* order.                                                                  *)
(*                                                                         *)
(* task.last tells that the upsert of the task is the one applied last     *)
(* among the upserts of its id on its store.                               *)
(***************************************************************************)
Targets == { "VectorStore", "InMemoryStore" }

\* the arguments of the upsert of the t-th task: each task writes its own
TaskVector(t) == <<t, 0>>
TaskMetadata(t) == IF t % 2 = 1 THEN Some(MetaA) ELSE None

Task(target, id, t) ==
    [target |-> target, id |-> id, vector |-> TaskVector(t),
     metadata |-> TaskMetadata(t), pc |-> "pending", last |-> FALSE]

\* the tasks after the upsert of task t was applied
Applied(ts, t) ==
    [i \in DOMAIN ts |->
        IF i = t THEN [ts[i] EXCEPT !.pc = "done", !.last = TRUE]
        ELSE IF ts[i].target = ts[t].target /\ ts[i].id = ts[t].id
             THEN [ts[i] EXCEPT !.last = FALSE]
             ELSE ts[i]]

\* asyncio.gather / create_task on store.upsert(id, vector, metadata)
CreateTask(target, id) ==
    /\ Len(tasks) < NumTasks
    /\ tasks' = Append(tasks, Task(target, id, Len(tasks) + 1))
    /\ UNCHANGED <<vectors, ms_vectors, ms_metadata, ret, written, loop, store, REGISTRY, registry>>

\* the event loop runs a task of VectorStore.upsert on the in-memory backend
RunUpsert(t) ==
    /\ tasks[t].pc = "pending"
    /\ tasks[t].target = "VectorStore"
    /\ vectors' = DictSet(vectors, tasks[t].id,
                          Record(tasks[t].id, tasks[t].vector, OrEmpty(tasks[t].metadata)))
    /\ tasks' = Applied(tasks, t)
    /\ UNCHANGED <<ms_vectors, ms_metadata, ret, written, loop, store, REGISTRY, registry>>

\* the event loop runs a task of InMemoryStore.upsert
RunStoreUpsert(t) ==
    /\ tasks[t].pc = "pending"
    /\ tasks[t].target = "InMemoryStore"
    /\ ms_vectors' = DictSet(ms_vectors, tasks[t].id, NpArray(List(tasks[t].vector)))
    /\ ms_metadata' = DictSet(ms_metadata, tasks[t].id, tasks[t].metadata)
    /\ tasks' = Applied(tasks, t)
    /\ UNCHANGED <<vectors, ret, written, loop, store, REGISTRY, registry>>

NextTasks ==
    \/ \E target \in Targets, id \in Ids : CreateTask(target, id)
    \/ \E t \in DOMAIN tasks : RunUpsert(t)
    \/ \E t \in DOMAIN tasks : RunStoreUpsert(t)
    \/ \E id \in Ids : Get(id)

SpecTasks == Init /\ [][NextTasks]_vars

(***************************************************************************)
(* Remote adapters.  An operation of an adapter wraps one call of the      *)
(* vendor's client in `try: ... except Exception`.  What a call yields is  *)
(* Returns(value) or Raises(kind).                                         *)
(***************************************************************************)
Returns(v) == <<"returns", v>>
Raises(kind) == <<"raises", kind>>
HasRaised(o) == o[1] = "raises"

\* PineconeStore is one class with two code paths, chosen by PINECONE_VERSION
Adapters ==
    { "PineconeVectorBackend", "PineconeStore.new", "PineconeStore.legacy",
      "RedisStore", "RedisVLStore" }

OpsOf(adapter) ==
    IF adapter = "PineconeVectorBackend"
    THEN { "upsert", "query", "get", "delete" }
    ELSE { "upsert", "query", "delete" }

\* the errors of the vendors' clients: classes derived from Exception
VendorErrors == { "PineconeException", "ConnectionError" }

AMatch == Match(1, ScoreOne, MetaA)
ARecord == Record(1, <<1, 0>>, MetaA)

\* what the client's call answers when it does not raise
VendorAnswers(adapter, op) ==
    CASE op = "upsert" -> { "ack" }
      [] op = "delete" -> IF adapter = "RedisStore" THEN { 0, 1 } ELSE { "ack" }
      [] op = "query"  -> { << >>, <<AMatch>> }
      [] op = "get"    -> { None, Some(ARecord) }

VendorOutcomes(adapter, op) ==
    {Returns(a) : a \in VendorAnswers(adapter, op)} \cup {Raises(e) : e \in VendorErrors}

\* the value of the `except Exception` branch of the operation
Degraded(op) ==
    CASE op = "upsert" -> FALSE
      [] op = "delete" -> FALSE
      [] op = "query"  -> << >>
      [] op = "get"    -> None

\* the value the operation makes of the client's answer
Converted(adapter, op, a) ==
    CASE op = "upsert" -> TRUE
      [] op = "delete" -> IF adapter = "RedisStore" THEN a > 0 ELSE TRUE
      [] op = "query"  -> a
      [] op = "get"    -> a

\* an operation without its except clause
AdapterCallUncaught(adapter, op, v) ==
    IF HasRaised(v) THEN v ELSE Returns(Converted(adapter, op, v[2]))

\* what the operation yields when the client's call yields v
AdapterCall(adapter, op, v) ==
    IF HasRaised(v) THEN Returns(Degraded(op))
    ELSE Returns(Converted(adapter, op, v[2]))

\* where the client's call runs: on the default executor's threads
\* (run_in_executor, asyncio.to_thread), inline in the coroutine, that is on
\* the thread of the event loop, or as a coroutine of an asyncio client
Context(adapter) ==
    CASE adapter = "PineconeVectorBackend" -> "executor"
      [] adapter = "PineconeStore.new"     -> "executor"
      [] adapter = "PineconeStore.legacy"  -> "inline"
      [] adapter = "RedisStore"            -> "coroutine"
      [] adapter = "RedisVLStore"          -> "inline"

\* the client is synchronous: its call blocks the thread it runs on
Blocking(adapter) == adapter # "RedisStore"

InFlight == ~IsNone(loop.call)
TheCall == Unwrap(loop.call)

\* the thread of the event loop is inside an operation that calls the client
\* inline: it leaves the operation only when the operation returns
LoopBlocked == InFlight /\ Context(TheCall.adapter) = "inline"

\* a task awaits adapter.op(...): the operation runs up to the client's call
CallStart(adapter, op) ==
    /\ ~InFlight
    /\ loop' = [call |-> Some([adapter |-> adapter, op |-> op, pc |-> "vendor",
                               vendor |-> None]),
                ticks |-> 0]
    /\ UNCHANGED <<vectors, ms_vectors, ms_metadata, ret, written, tasks, store, REGISTRY, registry>>

\* the vendor answers, or its client raises
VendorAnswer ==
    /\ InFlight /\ TheCall.pc = "vendor"
    /\ \E v \in VendorOutcomes(TheCall.adapter, TheCall.op) :
          loop' = [loop EXCEPT !.call = Some([TheCall EXCEPT !.pc = "answered",
                                                              !.vendor = Some(v)])]
    /\ UNCHANGED <<vectors, ms_vectors, ms_metadata, ret, written, tasks, store, REGISTRY, registry>>

\* the event loop resumes the operation, which returns to its caller
CallReturn ==
    /\ InFlight /\ TheCall.pc = "answered"
    /\ ret' = [op |-> TheCall.op, adapter |-> TheCall.adapter,
               vendor |-> Unwrap(TheCall.vendor),
               outcome |-> AdapterCall(TheCall.adapter, TheCall.op, Unwrap(TheCall.vendor)),
               ticks |-> loop.ticks]
    /\ loop' = [loop EXCEPT !.call = None]
    /\ UNCHANGED <<vectors, ms_vectors, ms_metadata, written, tasks, store, REGISTRY, registry>>

\* the event loop runs a step of another task
Tick ==
    /\ ~LoopBlocked
    /\ loop.ticks < MaxTicks
    /\ loop' = [loop EXCEPT !.ticks = @ + 1]
    /\ UNCHANGED <<vectors, ms_vectors, ms_metadata, ret, written, tasks, store, REGISTRY, registry>>

NextRemote ==
    \/ \E adapter \in Adapters : \E op \in OpsOf(adapter) : CallStart(adapter, op)
    \/ VendorAnswer
    \/ CallReturn
    \/ Tick

SpecRemote == Init /\ [][NextRemote]_vars

\* the event loop keeps running what is ready to run; nothing makes a vendor
\* answer
SpecRemoteFair == SpecRemote /\ WF_vars(CallReturn) /\ WF_vars(Tick)

(***************************************************************************)
(* The VectorStore facade (vector_backend.py).  `vectors` is the dict of   *)
(* the facade's backend when that is an InMemoryVectorBackend.             *)
(***************************************************************************)
\* values of env.VECTOR_PROVIDER
Providers == { "", "memory", "MEMORY", "pinecone", "invalid_backend", "redis" }

\* `env.VECTOR_PROVIDER or "memory"`
ProviderOrMemory(provider) == IF provider = "" THEN "memory" ELSE provider

\* str.lower() on the values above
Lower(s) == IF s = "MEMORY" THEN "memory" ELSE s

\* how PineconeVectorBackend.__init__ ends: the package may be missing and
\* PINECONE_API_KEY or PINECONE_INDEX unset
PineconeInits == { Returns("PineconeVectorBackend"), Raises("ImportError"), Raises("ValueError") }

\* VectorStore.__init__: the backend it ends with, or what it raises
SelectBackend(provider, pinecone) ==
    LET name == Lower(ProviderOrMemory(provider)) IN
    IF name = "pinecone" THEN pinecone
    ELSE IF name = "memory" THEN Returns("InMemoryVectorBackend")
    ELSE Raises("ValueError")

Facade(name, backend, effects) ==
    [backend_name |-> name, backend |-> backend, side_effects |-> effects]

Constructed == ~IsNone(store)
TheStore == Unwrap(store)

\* store = VectorStore(): the name `store` is bound only when __init__ returns
VectorStoreInit(provider, pinecone) ==
    LET made == SelectBackend(provider, pinecone)
        name == Lower(ProviderOrMemory(provider)) IN
    /\ IF HasRaised(made)
       THEN /\ ret' = [op |-> "VectorStore", provider |-> provider, outcome |-> made]
            /\ UNCHANGED <<store, vectors, written>>
       ELSE /\ ret' = [op |-> "VectorStore", provider |-> provider, outcome |-> Returns(name)]
            /\ store' = Some(Facade(name, made[2], {}))
            /\ vectors' = EmptyDict
            /\ written' = << >>
    /\ UNCHANGED <<ms_vectors, ms_metadata, tasks, loop, REGISTRY, registry>>

\* store.backend = mock_backend, a MagicMock whose methods in `effects` have
\* side_effect = Exception("Test error")
MockBackend(effects) ==
    /\ Constructed
    /\ store' = Some(Facade(TheStore.backend_name, "MagicMock", effects))
    /\ ret' = [op |-> "set_backend"]
    /\ UNCHANGED <<vectors, ms_vectors, ms_metadata, written, tasks, loop, REGISTRY, registry>>

\* what self.backend.op(...) yields on a MagicMock: the side effect, or a
\* MagicMock
MockCall(op) ==
    IF op \in TheStore.side_effects THEN Raises("Exception") ELSE Returns("MagicMock")

\* `return await self.backend.op(...)`: what the backend raises is raised to
\* the caller, and a MagicMock cannot be awaited
Awaited(op, inner) ==
    IF HasRaised(inner) THEN inner
    ELSE IF TheStore.backend = "MagicMock" THEN Raises("TypeError")
    ELSE inner

\* what the backends that keep no state here yield
ElsewhereCalls(op) ==
    IF TheStore.backend = "MagicMock" THEN { MockCall(op) }
    ELSE {AdapterCall("PineconeVectorBackend", op, v) :
             v \in VendorOutcomes("PineconeVectorBackend", op)}

InMemory == TheStore.backend = "InMemoryVectorBackend"

FacadeRet(op, inner) ==
    [op |-> op, backend |-> TheStore.backend, inner |-> inner, outcome |-> Awaited(op, inner)]

\* VectorStore.upsert
FacadeUpsert(id, vector, metadata) ==
    /\ Constructed
    /\ IF InMemory
       THEN /\ vectors' = DictSet(vectors, id, Record(id, vector, OrEmpty(metadata)))
            /\ written' = Wrote(written, id, vector, metadata)
            /\ ret' = FacadeRet("upsert", Returns(TRUE))
       ELSE /\ \E inner \in ElsewhereCalls("upsert") : ret' = FacadeRet("upsert", inner)
            /\ UNCHANGED <<vectors, written>>
    /\ UNCHANGED <<ms_vectors, ms_metadata, tasks, loop, store, REGISTRY, registry>>

\* VectorStore.query
FacadeQuery(q, k, f) ==
    /\ Constructed
    /\ IF InMemory
       THEN ret' = FacadeRet("query", Returns(QueryMatches(vectors, q, k, f)))
       ELSE \E inner \in ElsewhereCalls("query") : ret' = FacadeRet("query", inner)
    /\ UNCHANGED <<vectors, ms_vectors, ms_metadata, written, tasks, loop, store, REGISTRY, registry>>

\* VectorStore.get
FacadeGet(id) ==
    /\ Constructed
    /\ IF InMemory
       THEN ret' = FacadeRet("get", Returns(IF DictHas(vectors, id)
                                            THEN Some(DictGet(vectors, id)) ELSE None))
       ELSE \E inner \in ElsewhereCalls("get") : ret' = FacadeRet("get", inner)
    /\ UNCHANGED <<vectors, ms_vectors, ms_metadata, written, tasks, loop, store, REGISTRY, registry>>

\* VectorStore.delete
FacadeDelete(id) ==
    /\ Constructed
    /\ IF InMemory
       THEN /\ vectors' = IF DictHas(vectors, id) THEN DictDel(vectors, id) ELSE vectors
            /\ written' = Forgot(written, id)
            /\ ret' = FacadeRet("delete", Returns(DictHas(vectors, id)))
       ELSE /\ \E inner \in ElsewhereCalls("delete") : ret' = FacadeRet("delete", inner)
            /\ UNCHANGED <<vectors, written>>
    /\ UNCHANGED <<ms_vectors, ms_metadata, tasks, loop, store, REGISTRY, registry>>

\* what the facade is called with
FacadePayloads == { << <<1, 0>>, Some(MetaA) >>, << <<1>>, None >> }
SideEffects == { {}, {"query"}, {"query", "upsert"} }

NextFacade ==
    \/ \E provider \in Providers, pinecone \in PineconeInits :
          VectorStoreInit(provider, pinecone)
    \/ \E effects \in SideEffects : MockBackend(effects)
    \/ \E id \in Ids, p \in FacadePayloads : FacadeUpsert(id, p[1], p[2])
    \/ \E q \in QueryVectors, k \in 1..MaxK : FacadeQuery(q, k, None)
    \/ \E id \in Ids : FacadeGet(id)
    \/ \E id \in Ids : FacadeDelete(id)

SpecFacade == Init /\ [][NextFacade]_vars

(***************************************************************************)
(* registry_factory (storage/__init__.py).  REGISTRY is the module global  *)
(* _REGISTRY: None, or the one instance, told by its class.                *)
(***************************************************************************)
\* the keys of _REGISTRY_BACKENDS
RegistryBackends == { "file", "memory", "vector" }

\* _REGISTRY_BACKENDS[backend_type]
RegistryClass(backend_type) ==
    IF backend_type = "vector" THEN "VectorStore" ELSE "InMemoryRegistry"

\* the argument registry_type: Optional[str]
RegistryTypes ==
    { None, Some(""), Some("memory"), Some("file"), Some("vector"), Some("invalid") }

\* the keyword arguments of the call, by their names
KwargsArgs == { {}, {"storage_path"} }

\* the configuration the call reads from config.env
Envs ==
    [STORAGE_BACKEND : { "memory", "", "bogus" },
     STORAGE_PATH : { "./data", "" },
     VECTOR_PROVIDER : { "memory", "redis" }]

\* `registry_type or env.STORAGE_BACKEND or "memory"`
BackendType(registry_type, env) ==
    IF ~IsNone(registry_type) /\ Unwrap(registry_type) # "" THEN Unwrap(registry_type)
    ELSE IF env.STORAGE_BACKEND # "" THEN env.STORAGE_BACKEND
    ELSE "memory"

\* `registry_class(**kwargs)` under error_context: neither class takes a
\* storage_path (TypeError), VectorStore() raises for its provider; the
\* context manager raises these as PRISMAgentError
Instantiate(class, kwargs, env) ==
    IF kwargs # {} THEN Raises("PRISMAgentError")
    ELSE IF class = "VectorStore"
              /\ HasRaised(SelectBackend(env.VECTOR_PROVIDER, Raises("ImportError")))
         THEN Raises("PRISMAgentError")
    ELSE Returns(class)

\* registry_factory past the look at _REGISTRY, when no instance exists yet
RegistryFactoryUncached(registry_type, kwargs, env) ==
    LET backend_type == BackendType(registry_type, env) IN
    IF backend_type \notin RegistryBackends THEN Raises("InvalidConfigurationError")
    ELSE IF backend_type = "file" /\ "storage_path" \notin kwargs /\ env.STORAGE_PATH = ""
         THEN Raises("InvalidConfigurationError")
    ELSE Instantiate(RegistryClass(backend_type),
                     IF backend_type = "file" THEN kwargs \cup {"storage_path"} ELSE kwargs,
                     env)

\* what registry_factory(registry_type, **kwargs) yields when _REGISTRY is reg
RegistryFactoryOutcome(reg, registry_type, kwargs, env) ==
    IF ~IsNone(reg) THEN Returns(Unwrap(reg))
    ELSE RegistryFactoryUncached(registry_type, kwargs, env)

\* registry_factory(registry_type, **kwargs)
RegistryFactory(registry_type, kwargs, env) ==
    LET outcome == RegistryFactoryOutcome(REGISTRY, registry_type, kwargs, env) IN
    /\ ret' = [op |-> "registry_factory", registry_type |-> registry_type,
               kwargs |-> kwargs, env |-> env, cached |-> ~IsNone(REGISTRY),
               outcome |-> outcome]
    /\ REGISTRY' = IF IsNone(REGISTRY) /\ ~HasRaised(outcome) THEN Some(outcome[2])
                   ELSE REGISTRY
    /\ UNCHANGED <<vectors, ms_vectors, ms_metadata, written, tasks, loop, store, registry>>

NextRegistry ==
    \E registry_type \in RegistryTypes, kwargs \in KwargsArgs, env \in Envs :
        RegistryFactory(registry_type, kwargs, env)

SpecRegistry == Init /\ [][NextRegistry]_vars

(***************************************************************************)
(* _matches_filter on its own: the evaluator is applied to a metadata map  *)
(* and a filter expression drawn from the sets below, as query applies it  *)
(* to the metadata of each stored record.                                  *)
(***************************************************************************)
FilterKeys == {"category", "importance"}
FilterOps == {"$gt", "$gte", "$lt", "$lte", "$ne", "$regex"}
RangeOps == {"$gt", "$gte", "$lt", "$lte"}
KnownOps == RangeOps \cup {"$ne"}
Four == Num(4)

\* the values a metadata field takes: importance may hold a str
FieldValues(key) ==
    IF key = "category" THEN {Str("A"), Str("B")}
    ELSE {Num(3), Four, Num(5), Str("A")}

\* the metadata maps: each field absent or present, category first
MetaOf(c, i) ==
    (IF IsNone(c) THEN << >> ELSE <<Entry("category", Unwrap(c))>>)
        \o (IF IsNone(i) THEN << >> ELSE <<Entry("importance", Unwrap(i))>>)
Optional(S) == {None} \cup {Some(x) : x \in S}
FilterMetas ==
    { MetaOf(c, i) : c \in Optional(FieldValues("category")),
                     i \in Optional(FieldValues("importance")) }

Injective(s) == \A i, j \in DOMAIN s : s[i] = s[j] => i = j
DistinctSeqs(S, n) == { s \in [1..n -> S] : Injective(s) }

\* the operator objects of n distinct operators, each with value 4
OperatorObjects(n) ==
    { Ops([j \in DOMAIN s |-> Entry(s[j], Four)]) : s \in DistinctSeqs(FilterOps, n) }

\* what a field of a filter expression holds: a literal or an operator
\* object.  Those of size n: n operators, and for n = 1 also the literals
\* and the operator object {}
FilterLiterals == {Str("A"), Four}
FilterValues(n) ==
    OperatorObjects(n) \cup (IF n = 1 THEN FilterLiterals \cup OperatorObjects(0) ELSE {})

\* the filter expressions: dicts of no, one or two fields, in either order,
\* of at most MaxSize operators and literals in all
FilterExprs ==
    {EmptyDict}
    \cup { <<Entry(key, value)>> :
             key \in FilterKeys, value \in UNION { FilterValues(n) : n \in 1..MaxSize } }
    \cup UNION { { <<Entry(ks[1], v1), Entry(ks[2], v2)>> :
                     ks \in DistinctSeqs(FilterKeys, 2),
                     v1 \in FilterValues(nn[1]), v2 \in FilterValues(nn[2]) } :
                 nn \in { n \in (1..MaxSize) \X (1..MaxSize) : n[1] + n[2] <= MaxSize } }

\* the arguments of one call of the evaluator
InitFilter ==
    /\ vectors = EmptyDict
    /\ ms_vectors = EmptyDict
    /\ ms_metadata = EmptyDict
    /\ ret \in { [op |-> "call", metadata |-> metadata, expr |-> expr] :
                    metadata \in FilterMetas, expr \in FilterExprs }
    /\ written = << >>
    /\ tasks = << >>
    /\ loop = [call |-> None, ticks |-> 0]
    /\ store = None
    /\ REGISTRY = None
    /\ registry = NoRegistry

\* self._matches_filter(metadata, filter_expr)
MatchesFilterCall ==
    /\ ret.op = "call"
    /\ ret' = [op |-> "matches_filter", metadata |-> ret.metadata,
               expr |-> ret.expr,
               outcome |-> MatchesFilter(ret.metadata, ret.expr)]
    /\ UNCHANGED <<vectors, ms_vectors, ms_metadata, written, outside>>

NextFilter == MatchesFilterCall

SpecFilter == InitFilter /\ [][NextFilter]_vars

(***************************************************************************)
(* Calls in flight on the in-memory stores.  As above the callers are      *)
(* asyncio tasks of one event loop; upsert, delete, query and clear of     *)
(* InMemoryVectorBackend and of InMemoryStore are coroutines without a     *)
(* suspension point, so that the loop runs each of them in one step.  A    *)
(* call is in flight from the creation of its task to that step.           *)
(*                                                                         *)
(* call.held is the set of states that the map of the call's store has     *)
(* held since the call was made.                                           *)
(***************************************************************************)
CallOps(target) ==
    IF target = "VectorStore" THEN {"upsert", "delete", "query"}
    ELSE {"upsert", "delete", "query", "clear"}

\* the id that the t-th call is about
TaskId(t) == ((t - 1) % NumIds) + 1

\* the caller that holds the lock of a store's map: neither __init__ creates
\* a lock nor does a method acquire one
LockHolder(target) == None

\* the map of a store: the dict of the backend, the two dicts of InMemoryStore
MapOf(target, v, msv, msm) == IF target = "VectorStore" THEN <<v>> ELSE <<msv, msm>>

Call(target, op, t) ==
    [target |-> target, op |-> op, id |-> TaskId(t), vector |-> TaskVector(t),
     metadata |-> TaskMetadata(t), k |-> MaxK, pc |-> "pending", result |-> None,
     held |-> {MapOf(target, vectors, ms_vectors, ms_metadata)}]

\* the scan misses the record inserted last, and every metadata
ScanMatchesTorn(c, m) ==
    IF c.target = "VectorStore"
    THEN QueryMatches(SubSeq(m[1], 1, Len(m[1]) - 1), c.vector, c.k, None)
    ELSE StoreQueryMatches(m[1], EmptyDict, List(c.vector), c.k)

\* the matches that the scan of a query call computes from the map m
ScanMatches(c, m) ==
    IF c.target = "VectorStore" THEN QueryMatches(m[1], c.vector, c.k, None)
    ELSE StoreQueryMatches(m[1], m[2], List(c.vector), c.k)

\* what the call returns when it runs on the maps v, msv, msm
CallResult(c, v, msv, msm) ==
    CASE c.op = "query" -> Some(ScanMatches(c, MapOf(c.target, v, msv, msm)))
      [] c.op = "delete" ->
            IF c.target = "VectorStore" THEN Some(DictHas(v, c.id))
            ELSE IF DictHas(msv, c.id) /\ ~DictHas(msm, c.id) THEN <<"KeyError">>
            ELSE Some(DictHas(msv, c.id))
      [] c.op = "upsert" -> Some(TRUE)
      [] OTHER -> None

\* the calls after call t ran: it is done, and the calls still in flight
\* have seen the new state of their store's map
Ran(ts, t, v, msv, msm) ==
    [i \in DOMAIN ts |->
        IF i = t
        THEN [ts[i] EXCEPT !.pc = "done",
                           !.result = CallResult(ts[t], vectors, ms_vectors, ms_metadata)]
        ELSE IF ts[i].pc = "pending"
             THEN [ts[i] EXCEPT !.held = @ \cup {MapOf(ts[i].target, v, msv, msm)}]
             ELSE ts[i]]

\* asyncio.create_task / gather on a call of a store
CreateCall(target, op) ==
    /\ Len(tasks) < NumTasks
    /\ tasks' = Append(tasks, Call(target, op, Len(tasks) + 1))
    /\ UNCHANGED <<vectors, ms_vectors, ms_metadata, ret, written, loop, store, REGISTRY, registry>>

\* the event loop runs a call of VectorStore on the in-memory backend
RunBackendCall(t) ==
    /\ tasks[t].pc = "pending"
    /\ tasks[t].target = "VectorStore"
    /\ vectors' =
          CASE tasks[t].op = "upsert" ->
                  DictSet(vectors, tasks[t].id,
                          Record(tasks[t].id, tasks[t].vector, OrEmpty(tasks[t].metadata)))
            [] tasks[t].op = "delete" ->
                  IF DictHas(vectors, tasks[t].id) THEN DictDel(vectors, tasks[t].id)
                  ELSE vectors
            [] OTHER -> vectors
    /\ tasks' = Ran(tasks, t, vectors', ms_vectors, ms_metadata)
    /\ UNCHANGED <<ms_vectors, ms_metadata, ret, written, loop, store, REGISTRY, registry>>

\* the event loop runs a call of InMemoryStore
RunStoreCall(t) ==
    /\ tasks[t].pc = "pending"
    /\ tasks[t].target = "InMemoryStore"
    /\ ms_vectors' =
          CASE tasks[t].op = "upsert" ->
                  DictSet(ms_vectors, tasks[t].id, NpArray(List(tasks[t].vector)))
            [] tasks[t].op = "delete" ->
                  IF DictHas(ms_vectors, tasks[t].id) THEN DictDel(ms_vectors, tasks[t].id)
                  ELSE ms_vectors
            [] tasks[t].op = "clear" -> EmptyDict
            [] OTHER -> ms_vectors
    /\ ms_metadata' =
          CASE tasks[t].op = "upsert" -> DictSet(ms_metadata, tasks[t].id, tasks[t].metadata)
            [] tasks[t].op = "delete" ->
                  IF DictHas(ms_vectors, tasks[t].id) THEN DictDel(ms_metadata, tasks[t].id)
                  ELSE ms_metadata
            [] tasks[t].op = "clear" -> EmptyDict
            [] OTHER -> ms_metadata
    /\ tasks' = Ran(tasks, t, vectors, ms_vectors', ms_metadata')
    /\ UNCHANGED <<vectors, ret, written, loop, store, REGISTRY, registry>>

NextCalls ==
    \/ \E target \in Targets : \E op \in CallOps(target) : CreateCall(target, op)
    \/ \E t \in DOMAIN tasks : RunBackendCall(t)
    \/ \E t \in DOMAIN tasks : RunStoreCall(t)

SpecCalls == Init /\ [][NextCalls]_vars

(***************************************************************************)
(* InMemoryRegistry (file_backend.py).  _store is an attribute of the      *)
(* class: the class has no __init__ and no method assigns self._store, so  *)
(* that every instance reads and writes the one dict registry.store.       *)
(* registry.instances[i] is the set of names registered through the i-th   *)
(* instance.                                                               *)
(***************************************************************************)
AgentNames == {"agent1", "agent2"}
AgentOf(name) == <<"agent", name>>
Instances == DOMAIN registry.instances

\* InMemoryRegistry(): nothing is assigned
RegistryNew ==
    /\ Len(registry.instances) < MaxInstances
    /\ registry' = [registry EXCEPT !.instances = Append(@, {})]
    /\ ret' = [op |-> "InMemoryRegistry", instance |-> Len(registry.instances) + 1]
    /\ UNCHANGED <<vectors, ms_vectors, ms_metadata, written, tasks, loop, store, REGISTRY>>

\* async def register(self, agent)
Register(i, name) ==
    /\ IF DictHas(registry.store, name)
       THEN /\ ret' = [op |-> "register", instance |-> i, name |-> name,
                       outcome |-> Raises("AgentExistsError")]
            /\ UNCHANGED registry
       ELSE /\ ret' = [op |-> "register", instance |-> i, name |-> name,
                       outcome |-> Returns(None)]
            /\ registry' = [store |-> DictSet(registry.store, name, AgentOf(name)),
                            instances |-> [registry.instances EXCEPT ![i] = @ \cup {name}]]
    /\ UNCHANGED <<vectors, ms_vectors, ms_metadata, written, tasks, loop, store, REGISTRY>>

\* async def list_agents(self): list(self._store.keys())
ListAgents(i) ==
    /\ ret' = [op |-> "list_agents", instance |-> i,
               result |-> [j \in DOMAIN registry.store |-> registry.store[j].key]]
    /\ UNCHANGED <<vectors, ms_vectors, ms_metadata, written, outside>>

\* async def get_agent(self, name): self._store.get(name)
GetAgent(i, name) ==
    /\ ret' = [op |-> "get_agent", instance |-> i, name |-> name,
               result |-> IF DictHas(registry.store, name)
                          THEN Some(DictGet(registry.store, name)) ELSE None]
    /\ UNCHANGED <<vectors, ms_vectors, ms_metadata, written, outside>>

NextInMemoryRegistry ==
    \/ RegistryNew
    \/ \E i \in Instances, name \in AgentNames : Register(i, name)
    \/ \E i \in Instances : ListAgents(i)
    \/ \E i \in Instances, name \in AgentNames : GetAgent(i, name)

SpecInMemoryRegistry == Init /\ [][NextInMemoryRegistry]_vars

(***************************************************************************)
(* C1: the number of stored records equals the number of distinct ids      *)
(* upserted since the last clear and not deleted since: an upsert of a     *)
(* present id adds no record, count() returns that number, and after       *)
(* clear it is 0.                                                          *)
(***************************************************************************)
C1_CountIsLiveIds ==
    /\ Len(vectors) + Len(ms_vectors) = Cardinality(DOMAIN written)
    /\ DictKeys(vectors) \cup DictKeys(ms_vectors) = DOMAIN written
    /\ ret.op = "count" => ret.result = Cardinality(DOMAIN written)
    /\ ret.op = "clear" => Len(ms_vectors) = 0 /\ DOMAIN written = {}

\* the last call overwrote the record of the id inserted first, and count
\* stayed at the number of ids
C1_Witness ==
    /\ ret.op = "upsert"
    /\ ret.result
    /\ Len(ms_vectors) = NumIds
    /\ ms_vectors[1].key = ret.id

(***************************************************************************)
(* What the claims about query speak of, on the last call.                 *)
(***************************************************************************)
\* the stored entries that the filter of the last query lets through
LetThrough ==
    {i \in DOMAIN vectors :
        ~Truthy(ret.filter)
        \/ MatchesFilter(vectors[i].val.metadata, Unwrap(ret.filter)).match}

ReturnedIds == {ret.result[j].id : j \in DOMAIN ret.result}

\* the score of a stored entry against the vector of the last query
ScoreOf(i) == CosineSimilarity(ret.vector, vectors[i].val.vector)

\* every stored vector has the dimension of the vector of the last query
SameDimension == \A i \in DOMAIN vectors : Len(vectors[i].val.vector) = Len(ret.vector)

(***************************************************************************)
(* C2: query(v, k) without a filter on a store of n records returns        *)
(* exactly min(k, n) matches, for every k >= 0 and n >= 0.                 *)
(***************************************************************************)
C2_QueryReturnsMinKN ==
    (ret.op = "query" /\ IsNone(ret.filter) /\ ret.k >= 0)
        => Len(ret.result) = Min(ret.k, Len(vectors))

(***************************************************************************)
(* C3: query with a filter returns only records whose metadata satisfies   *)
(* the filter, and its matches are the top k by similarity among exactly   *)
(* the stored records that satisfy it.                                     *)
(***************************************************************************)
C3_FilterTopK ==
    (ret.op = "query" /\ Truthy(ret.filter) /\ ret.k >= 0)
        => /\ \A j \in DOMAIN ret.result :
                \E i \in LetThrough : vectors[i].key = ret.result[j].id
           /\ Len(ret.result) = Min(ret.k, Cardinality(LetThrough))
           /\ \A i \in LetThrough :
                vectors[i].key \notin ReturnedIds
                    => \A j \in DOMAIN ret.result :
                            ScoreLeq(ScoreOf(i), ret.result[j].score)

(***************************************************************************)
(* C4: the matches of a query are sorted by score, highest first, and      *)
(* every stored record that passes the filter and is left out of the       *)
(* result has a score not higher than the lowest score returned.           *)
(***************************************************************************)
C4_SortedDescending ==
    ret.op = "query"
        => /\ \A i, j \in DOMAIN ret.result :
                i < j => ScoreLeq(ret.result[j].score, ret.result[i].score)
           /\ \A i \in LetThrough :
                (ret.result # << >> /\ vectors[i].key \notin ReturnedIds)
                    => ScoreLeq(ScoreOf(i), ret.result[Len(ret.result)].score)

\* the one match returned is the record inserted last, and the record
\* inserted first is left out with a strictly lower score
C4_Witness ==
    /\ ret.op = "query"
    /\ Len(vectors) = 2
    /\ Len(ret.result) = 1
    /\ ret.result[1].id = vectors[2].key
    /\ 1 \in LetThrough
    /\ ScoreLess(ScoreOf(1), ret.result[1].score)

C6_DeleteStep ==
    /\ ret'.op = "delete" =>
          IF DictHas(vectors, ret'.id)
          THEN /\ ret'.result = TRUE
               /\ ~DictHas(vectors', ret'.id)
               /\ \A i \in Ids \ {ret'.id} :
                     /\ DictHas(vectors', i) = DictHas(vectors, i)
                     /\ DictHas(vectors, i) => DictGet(vectors', i) = DictGet(vectors, i)
          ELSE /\ ret'.result = FALSE
               /\ vectors' = vectors
    /\ ret'.op = "get" => (IsNone(ret'.result) <=> ~DictHas(vectors, ret'.id))
    /\ \A i \in Ids :
          (~DictHas(vectors, i) /\ DictHas(vectors', i))
              => ret'.op = "upsert" /\ ret'.id = i

C6_Delete == [][C6_DeleteStep]_vars

\* a present id was deleted and another record is still stored
C6_Witness ==
    /\ ret.op = "delete"
    /\ ret.result = TRUE
    /\ Len(vectors) = 1

(***************************************************************************)
(* C7: after upsert(id, vector, metadata), get(id) returns a record whose  *)
(* id, vector and metadata equal the upserted ones, until the next upsert  *)
(* or delete of that id; get of an id not stored returns None.             *)
(***************************************************************************)
C7_RoundTrip ==
    ret.op = "get"
        => IF ret.id \in DOMAIN written
           THEN /\ ~IsNone(ret.result)
                /\ Unwrap(ret.result).id = ret.id
                /\ Unwrap(ret.result).vector = written[ret.id].vector
                /\ Some(Unwrap(ret.result).metadata) = written[ret.id].metadata
           ELSE IsNone(ret.result)

(***************************************************************************)
(* C7, amended: as C7, except that the metadata returned is the upserted   *)
(* one when that is a non-empty mapping and the empty mapping {} when the  *)
(* upsert passed None (or nothing, or {}).                                 *)
(***************************************************************************)
C7_RoundTripOrEmpty ==
    ret.op = "get"
        => IF ret.id \in DOMAIN written
           THEN /\ ~IsNone(ret.result)
                /\ Unwrap(ret.result).id = ret.id
                /\ Unwrap(ret.result).vector = written[ret.id].vector
                /\ Unwrap(ret.result).metadata =
                      IF IsNone(written[ret.id].metadata) THEN EmptyDict
                      ELSE Unwrap(written[ret.id].metadata)
           ELSE IsNone(ret.result)

\* get returns a record that was upserted without metadata, while another
\* record is stored
C7_Witness ==
    /\ ret.op = "get"
    /\ ret.id \in DOMAIN written
    /\ IsNone(written[ret.id].metadata)
    /\ Unwrap(ret.result).metadata = EmptyDict
    /\ Len(vectors) = 2

(***************************************************************************)
(* C8: an upsert of an id with the vector and metadata the id already      *)
(* holds leaves the store as it was (the same ids in the same order, the   *)
(* same record for each), so that every query, whose matches are           *)
(* QueryMatches of the store and its arguments, returns the same ordered   *)
(* result before and after it.                                             *)
(***************************************************************************)
C8_ReupsertStep ==
    /\ (/\ ret'.op = "upsert"
        /\ DictHas(vectors, ret'.id)
        /\ DictGet(vectors, ret'.id).vector = ret'.vector
        /\ DictGet(vectors, ret'.id).metadata = OrEmpty(ret'.metadata))
           => vectors' = vectors
    \* InMemoryStore, under SpecStore
    /\ (/\ ret'.op = "upsert"
        /\ DictHas(ms_vectors, ret'.id)
        /\ IsNumeric(ret'.vector)
        /\ DictGet(ms_vectors, ret'.id) = NpArray(ret'.vector)
        /\ DictGet(ms_metadata, ret'.id) = ret'.metadata)
           => ms_vectors' = ms_vectors /\ ms_metadata' = ms_metadata

C8_Idempotent == [][C8_ReupsertStep]_vars

\* the last call upserted again what the id inserted first already held
C8_Witness ==
    /\ ret.op = "upsert"
    /\ ret.same
    /\ Len(vectors) = 2
    /\ vectors[1].key = ret.id

(***************************************************************************)
(* C9: whenever the query vector or a stored vector has zero norm, the     *)
(* score of that pair is exactly 0 and the query completes with that       *)
(* record among its candidates: a query that cuts nothing off (k >= n)     *)
(* returns the record, with score 0.                                       *)
(***************************************************************************)
C9_ZeroNormScoresZero ==
    (ret.op = "query" /\ ret.k >= Len(vectors))
        => \A i \in LetThrough :
              (NormSq(ret.vector) = 0 \/ NormSq(vectors[i].val.vector) = 0)
                 => \E j \in DOMAIN ret.result :
                       /\ ret.result[j].id = vectors[i].key
                       /\ ret.result[j].score = ScoreZero

(***************************************************************************)
(* C10: upsert validates its vector: an empty vector, or one whose length  *)
(* differs from the dimension the first upsert established, makes upsert   *)
(* return false and leaves the store unchanged, so that only non-empty     *)
(* vectors of one dimension are stored.                                    *)
(***************************************************************************)
C10_UpsertValidates ==
    /\ (ret.op = "upsert" /\ Len(ret.vector) = 0) => ret.result = FALSE
    /\ \A i \in DOMAIN vectors : Len(vectors[i].val.vector) > 0
    /\ \A i, j \in DOMAIN vectors :
          Len(vectors[i].val.vector) = Len(vectors[j].val.vector)

(***************************************************************************)
(* C11: a query whose vector has another dimension than a stored vector it *)
(* is scored against ends in an error the caller sees: what the caller     *)
(* gets differs from what a successful query returns, here from what the   *)
(* same query returns on a store without records.                          *)
(***************************************************************************)
C11_MismatchSurfaces ==
    (/\ ret.op = "query"
     /\ \E i \in LetThrough : CosineRaises(ret.vector, vectors[i].val.vector))
        => ret.result # QueryMatches(EmptyDict, ret.vector, ret.k, ret.filter)

(***************************************************************************)
(* C12: in every reachable state of one in-memory store all stored vectors *)
(* have the same dimension.                                                *)
(***************************************************************************)
C12_OneDimension ==
    \A i, j \in DOMAIN vectors :
        Len(vectors[i].val.vector) = Len(vectors[j].val.vector)

(***************************************************************************)
(* What the claims about concurrent upserts speak of.                      *)
(***************************************************************************)
\* the tasks that upsert the id on the store
TasksOf(target, id) ==
    {t \in DOMAIN tasks : tasks[t].target = target /\ tasks[t].id = id}

Completed(T) == \A t \in T : tasks[t].pc = "done"

\* the tasks that upsert through the VectorStore facade
OnBackend == {t \in DOMAIN tasks : tasks[t].target = "VectorStore"}

\* the store holds, under the id of task t, what task t wrote
HoldsWriteOf(t) ==
    IF tasks[t].target = "VectorStore"
    THEN /\ DictHas(vectors, tasks[t].id)
         /\ DictGet(vectors, tasks[t].id)
               = Record(tasks[t].id, tasks[t].vector, OrEmpty(tasks[t].metadata))
    ELSE /\ DictHas(ms_vectors, tasks[t].id) /\ DictHas(ms_metadata, tasks[t].id)
         /\ DictGet(ms_vectors, tasks[t].id) = NpArray(List(tasks[t].vector))
         /\ DictGet(ms_metadata, tasks[t].id) = tasks[t].metadata

(***************************************************************************)
(* C13: no lost updates: when the upserts issued concurrently against the  *)
(* in-memory backend have distinct ids, then in whatever order the event   *)
(* loop ran them, once all have completed the store holds exactly one      *)
(* record per upsert and each id maps to the vector and metadata that its  *)
(* own upsert wrote.                                                       *)
(***************************************************************************)
C13_NoLostUpdates ==
    (/\ Completed(OnBackend)
     /\ \A s, t \in OnBackend : s # t => tasks[s].id # tasks[t].id)
        => /\ Len(vectors) = Cardinality(OnBackend)
           /\ \A t \in OnBackend : HoldsWriteOf(t)

\* two upserts of distinct ids have completed in the order opposite to the
\* one they were issued in
C13_Witness ==
    /\ Completed(OnBackend)
    /\ \E s, t \in OnBackend :
          /\ s < t
          /\ tasks[s].id # tasks[t].id
          /\ DictIndex(vectors, tasks[t].id) < DictIndex(vectors, tasks[s].id)
    /\ \A s, t \in OnBackend : s # t => tasks[s].id # tasks[t].id

(***************************************************************************)
(* C19: per-id last-writer-wins: once the upserts issued for an id have    *)
(* all completed (no delete follows), the store holds for the id exactly   *)
(* the vector and the metadata of the upsert applied last, and a get(id)   *)
(* returns that record: never a mix of two writes, never an earlier write. *)
(***************************************************************************)
C19_Settled ==
    \A t \in DOMAIN tasks :
        (tasks[t].last /\ Completed(TasksOf(tasks[t].target, tasks[t].id)))
            => /\ HoldsWriteOf(t)
               /\ \A s \in TasksOf(tasks[t].target, tasks[t].id) : tasks[s].last => s = t

C19_GetStep ==
    (/\ ret'.op = "get"
     /\ tasks' = tasks
     /\ TasksOf("VectorStore", ret'.id) # {}
     /\ Completed(TasksOf("VectorStore", ret'.id)))
        => \E t \in TasksOf("VectorStore", ret'.id) :
              /\ tasks[t].last
              /\ ret'.result = Some(Record(tasks[t].id, tasks[t].vector,
                                            OrEmpty(tasks[t].metadata)))

PineconeAdapters == { "PineconeVectorBackend", "PineconeStore.new", "PineconeStore.legacy" }

C15_NoVendorExceptionLeaks ==
    (ret.op \in { "upsert", "query", "get", "delete" } /\ ret.adapter \in PineconeAdapters)
        => /\ ~HasRaised(ret.outcome)
           /\ HasRaised(ret.vendor) => ret.outcome = Returns(Degraded(ret.op))

\* the client has raised under get of PineconeVectorBackend, which has
\* returned None
C15_Witness ==
    /\ ret.op = "get"
    /\ ret.adapter = "PineconeVectorBackend"
    /\ HasRaised(ret.vendor)
    /\ ret.outcome = Returns(None)

(***************************************************************************)
(* C16: while the call of a blocking vendor client is in progress it runs  *)
(* on the worker pool and the event loop of the caller is free to run      *)
(* other tasks, for every remote adapter and SDK variant.                  *)
(***************************************************************************)
C16_VendorCallsOffloaded ==
    (InFlight /\ TheCall.pc = "vendor")
        => /\ ~LoopBlocked
           /\ Blocking(TheCall.adapter) => Context(TheCall.adapter) = "executor"

(***************************************************************************)
(* C17: no call of a remote adapter stays pending forever: when the vendor *)
(* does not answer the call ends all the same (with a timeout error, once  *)
(* the caller's deadline expires).                                         *)
(***************************************************************************)
C17_NoCallPendsForever == InFlight ~> ~InFlight

(***************************************************************************)
(* C14: when the call of the active backend raises, the facade returns the *)
(* degraded value to its caller: {"matches": []} from query, False from    *)
(* upsert and from delete.                                                 *)
(***************************************************************************)
C14_FacadeDegrades ==
    (ret.op \in { "query", "upsert", "delete" } /\ HasRaised(ret.inner))
        => ret.outcome = Returns(Degraded(ret.op))

(***************************************************************************)
(* C18: constructing VectorStore when VECTOR_PROVIDER names an unsupported *)
(* backend succeeds and yields a store whose backend_name is "memory".     *)
(***************************************************************************)
Unsupported(provider) == Lower(ProviderOrMemory(provider)) \notin { "memory", "pinecone" }

C18_FallsBackToMemory ==
    (ret.op = "VectorStore" /\ Unsupported(ret.provider))
        => /\ ~HasRaised(ret.outcome)
           /\ Constructed
           /\ TheStore.backend_name = "memory"

(***************************************************************************)
(* C20: registry_factory raises on every call whose registry_type is not   *)
(* one of the supported backend names, in whatever order the calls are     *)
(* made, also after an earlier call has created a registry instance.       *)
(***************************************************************************)
UnsupportedType(registry_type) ==
    /\ ~IsNone(registry_type)
    /\ Unwrap(registry_type) # ""
    /\ Unwrap(registry_type) \notin RegistryBackends

C20_InvalidTypeRaises ==
    (ret.op = "registry_factory" /\ UnsupportedType(ret.registry_type))
        => HasRaised(ret.outcome)

(***************************************************************************)
(* What the claims about _matches_filter speak of, on the last call.       *)
(***************************************************************************)
Evaluated == ret.op = "matches_filter"
LiteralsOnly(expr) == \A i \in DOMAIN expr : ~IsOps(expr[i].val)

\* the field is present in the metadata and equal to the value
PresentAndEqual(metadata, key, value) ==
    DictHas(metadata, key) /\ DictGet(metadata, key) = value

(***************************************************************************)
(* C21: for a filter expression whose values are literals, _matches_filter *)
(* returns true exactly when every field of the expression is present in   *)
(* the metadata and equal to its literal (the fields are AND-combined, one *)
(* failing or absent field excludes the record), and an empty or missing   *)
(* filter lets every record through.                                       *)
(***************************************************************************)
C21_LiteralsAreAnded ==
    /\ Evaluated /\ LiteralsOnly(ret.expr) =>
          /\ ~ret.outcome.raised
          /\ ret.outcome.match =
                \A i \in DOMAIN ret.expr :
                    PresentAndEqual(ret.metadata, ret.expr[i].key, ret.expr[i].val)
    /\ Evaluated =>
          \A f \in {None, Some(EmptyDict)} :
              ~Skipped(Record(1, <<1, 0>>, ret.metadata), f)

\* two literal fields were evaluated, the first one holds and the second
\* one excluded the record
C21_Witness ==
    /\ Evaluated
    /\ Len(ret.expr) = 2
    /\ LiteralsOnly(ret.expr)
    /\ PresentAndEqual(ret.metadata, ret.expr[1].key, ret.expr[1].val)
    /\ ~ret.outcome.match

\* the expression is {field: {op: v}}, one field with one operator
OneOperator(expr) ==
    Len(expr) = 1 /\ IsOps(expr[1].val) /\ Len(expr[1].val[2]) = 1
TheField == ret.expr[1].key
TheOp == ret.expr[1].val[2][1].key
TheBound == ret.expr[1].val[2][1].val

\* a > b, a >= b, a < b, a <= b of two values of one type
Compares(op, a, b) ==
    CASE op = "$gt" -> Rank(a) > Rank(b)
      [] op = "$gte" -> Rank(a) >= Rank(b)
      [] op = "$lt" -> Rank(a) < Rank(b)
      [] op = "$lte" -> Rank(a) <= Rank(b)

(***************************************************************************)
(* C22: for each op of $gt, $gte, $lt, $lte the filter {field: {op: v}}    *)
(* matches a record exactly when the field is present in its metadata and  *)
(* metadata[field] compares to v as the operator says; a record without    *)
(* the field never matches.  {importance: {$gte: 4}} excludes the records  *)
(* without importance and those with importance < 4 and keeps those with   *)
(* importance >= 4.  (A present value of another type than v compares in   *)
(* no way: the evaluator raises TypeError and returns no match.)           *)
(***************************************************************************)
C22_RangeOperators ==
    Evaluated /\ OneOperator(ret.expr) /\ TheOp \in RangeOps =>
        LET has == DictHas(ret.metadata, TheField)
            mv == DictGet(ret.metadata, TheField)
        IN  /\ ret.outcome.match =
                  (has /\ Comparable(mv, TheBound) /\ Compares(TheOp, mv, TheBound))
            /\ ret.outcome.raised = (has /\ ~Comparable(mv, TheBound))
            /\ ret.outcome.warnings = 0

\* {importance: {$gte: 4}} kept a record whose importance is 4
C22_Witness ==
    /\ Evaluated /\ OneOperator(ret.expr)
    /\ TheField = "importance" /\ TheOp = "$gte" /\ TheBound = Four
    /\ DictHas(ret.metadata, "importance")
    /\ DictGet(ret.metadata, "importance") = Four
    /\ ret.outcome.match

(***************************************************************************)
(* C23: the filter {field: {$ne: v}} matches a record when the field is    *)
(* absent from its metadata or present with a value other than v, and      *)
(* fails only when the field is present and equal to v: on every metadata  *)
(* map it returns the opposite of the equality filter {field: v}.          *)
(***************************************************************************)
C23_NeIsComplementOfEquality ==
    Evaluated /\ OneOperator(ret.expr) /\ TheOp = "$ne" =>
        /\ ~ret.outcome.raised
        /\ ret.outcome.match = ~PresentAndEqual(ret.metadata, TheField, TheBound)
        /\ ret.outcome.match =
              ~MatchesFilter(ret.metadata, <<Entry(TheField, TheBound)>>).match

\* {importance: {$ne: 4}} matched a record that has no importance
C23_Witness ==
    /\ Evaluated /\ OneOperator(ret.expr)
    /\ TheField = "importance" /\ TheOp = "$ne"
    /\ ~DictHas(ret.metadata, "importance")
    /\ ret.outcome.match

\* some operator object of the expression holds an operator without a branch
HasUnknownOperator(expr) ==
    \E i \in DOMAIN expr :
        /\ IsOps(expr[i].val)
        /\ \E j \in DOMAIN expr[i].val[2] : expr[i].val[2][j].key \notin KnownOps

(***************************************************************************)
(* C24: an operator object with an operator outside $gt, $gte, $lt, $lte,  *)
(* $ne is handled fail-closed: the record under evaluation is excluded, no *)
(* exception is raised, and exactly one "unsupported" occurrence is        *)
(* reported for the evaluation, wherever the unknown operator stands among *)
(* the fields and operators of the expression.                             *)
(***************************************************************************)
C24_UnknownOperatorFailsClosed ==
    Evaluated /\ HasUnknownOperator(ret.expr) =>
        /\ ~ret.outcome.match
        /\ ~ret.outcome.raised
        /\ ret.outcome.warnings = 1

\* the position of the record of an id in the dict is its rank of insertion:
\* in a step the ids that stay keep their order and a new id comes last
InsertionOrderKept ==
    /\ \A a, b \in DictKeys(vectors) \cap DictKeys(vectors') :
          DictIndex(vectors, a) < DictIndex(vectors, b)
              => DictIndex(vectors', a) < DictIndex(vectors', b)
    /\ \A a \in DictKeys(vectors') \ DictKeys(vectors) :
          DictIndex(vectors', a) = Len(vectors')

\* in the result of the last query equal scores stand in insertion order, and
\* a record left out with the score of a returned one was inserted after it
TiesInInsertionOrder ==
    ret.op = "query" =>
        /\ \A i, j \in DOMAIN ret.result :
              (i < j /\ ret.result[i].score = ret.result[j].score)
                  => DictIndex(vectors, ret.result[i].id)
                        < DictIndex(vectors, ret.result[j].id)
        /\ LET left == {i \in LetThrough : vectors[i].key \notin ReturnedIds}
           IN  \A j \in DOMAIN ret.result : \A i \in left :
                  ScoreOf(i) = ret.result[j].score
                      => DictIndex(vectors, ret.result[j].id) < i

\* the step repeats the query of the step before
QueryRepeated ==
    /\ ret.op = "query" /\ ret'.op = "query"
    /\ ret'.vector = ret.vector /\ ret'.k = ret.k /\ ret'.filter = ret.filter

(***************************************************************************)
(* C25: the order of equal scores is deterministic: records of the same    *)
(* score appear in the order in which their ids were inserted (the sort is *)
(* stable over the dict's order), so that the record cut off by k among    *)
(* ties is the one inserted later, and repeating a query on an unchanged   *)
(* store gives the same ordered result.                                    *)
(***************************************************************************)
C25_StableTieBreak ==
    [][/\ InsertionOrderKept
       /\ TiesInInsertionOrder'
       /\ QueryRepeated => ret'.result = ret.result]_vars

\* two stored records tie and k = 1 returned the one inserted first, which
\* is not the one of the lower id
C25_Witness ==
    /\ ret.op = "query"
    /\ Len(vectors) = 2 /\ LetThrough = {1, 2}
    /\ SameDimension
    /\ ScoreOf(1) = ScoreOf(2)
    /\ vectors[1].key > vectors[2].key
    /\ Len(ret.result) = 1
    /\ ret.result[1].id = vectors[1].key

(***************************************************************************)
(* What the claims about calls in flight speak of.                         *)
(***************************************************************************)
Mutations == {"upsert", "delete", "clear"}

\* call t runs in the step
RunsIn(t) == tasks[t].pc = "pending" /\ tasks'[t].pc = "done"

\* the same query on the state m of the map
SameQueryOn(c, m) ==
    IF c.target = "VectorStore" THEN QueryMatches(m[1], c.vector, c.k, None)
    ELSE StoreQueryMatches(m[1], m[2], List(c.vector), c.k)

(***************************************************************************)
(* C26: every mutation of the in-memory record map (upsert, delete, clear) *)
(* is performed while holding the one lock shared by all callers of the    *)
(* store: no two mutations are in progress at once, and no mutation is     *)
(* applied by a caller that does not hold the lock.                        *)
(***************************************************************************)
C26_MutationsUnderOneLock ==
    [][/\ Cardinality({t \in DOMAIN tasks : RunsIn(t) /\ tasks[t].op \in Mutations}) <= 1
       /\ \A t \in DOMAIN tasks :
             (RunsIn(t) /\ tasks[t].op \in Mutations)
                 => LockHolder(tasks[t].target) = Some(t)]_vars

FreshInstance == registry.instances[ret.instance] = {}

(***************************************************************************)
(* C28: a newly constructed InMemoryRegistry contains no agents: its       *)
(* list_agents() returns [] and its get_agent(name) returns None for every *)
(* name, whatever was registered before through other instances of         *)
(* InMemoryRegistry in the same process.                                   *)
(***************************************************************************)
C28_NewRegistryIsEmpty ==
    /\ (ret.op = "list_agents" /\ FreshInstance) => ret.result = << >>
    /\ (ret.op = "get_agent" /\ FreshInstance) => IsNone(ret.result)

(***************************************************************************)
(* C29: the number of matches of a query never exceeds k, for every        *)
(* integer k: a query with k = 0 or with a negative k returns an empty     *)
(* list.                                                                   *)
(***************************************************************************)
C29_AtMostK ==
    ret.op = "query" => Len(ret.result) <= (IF ret.k > 0 THEN ret.k ELSE 0)

(***************************************************************************)
(* C30: in InMemoryStore the vectors map and the metadata map hold the     *)
(* same set of ids in every reachable state, after any sequence of upsert  *)
(* (failing ones included), delete, clear, query and count: delete never   *)
(* removes a vector without its metadata.                                  *)
(***************************************************************************)
C30_SameIdsInBothMaps ==
    /\ DictKeys(ms_vectors) = DictKeys(ms_metadata)
    /\ ret.op = "delete" =>
          /\ ret.result \in {Some(TRUE), Some(FALSE)}
          /\ ret.id \notin DictKeys(ms_vectors) \cup DictKeys(ms_metadata)

\* a delete removed one of two records, vector and metadata
C30_Witness ==
    /\ ret.op = "delete"
    /\ ret.result = Some(TRUE)
    /\ Len(ms_vectors) = 1
    /\ Len(ms_metadata) = 1

====
